---- MODULE Spec2Model ----
(***************************************************************************)
(* Model of go.expect.digital/cache: the generic LRU cache of lru/lru.go   *)
(* on top of the doubly linked list of internal/linked.                    *)
(*                                                                         *)
(* Callers are tasks 1..NProcs, each at a position (pc) of Get or Set. A   *)
(* critical section of the RWMutex is one action unless another task can   *)
(* observe its middle (Len reads the list length without the lock, so Set  *)
(* is split after the insertion and per swept entry).                      *)
(* List elements are ids 1..MaxNodes with prev/next links; Root is the     *)
(* sentinel and Nil the nil pointer. A nil dereference is a panic of the   *)
(* acting task, which then never releases a lock it holds.                 *)
(***************************************************************************)
EXTENDS Integers, Sequences, FiniteSets, TLC

\* ------------------------------------------------------------------ bounds
NProcs == 2
NKeys == 3
NConcKeys == 2
NVals == 2
MaxSize == 2
MaxConcSize == 1
MaxTTL == 1
MaxTime == 2

defaultSize == 1024
Root == 0
Nil == -1

Procs == 1..NProcs
Keys == 1..NKeys
Vals == 1..NVals
\* The list holds at most n+1 elements, and each task at most one handle.
MaxNodes == MaxSize + MaxConcSize + 1 + NProcs
Nodes == 1..MaxNodes
Sizes == 1..MaxSize
\* Concurrent callers share fewer keys and a smaller cache.
ConcKeys == 1..NConcKeys
ConcSizes == 1..MaxConcSize
TTLs == 0..MaxTTL

VARIABLES
    n, ttl, getter, onEvict,  \* configuration (getter/onEvict: is one set)
    cache,                    \* the linked list: n, next, prev, Value
    lookup,                   \* key -> element or Nil
    pending,                  \* key -> sequence of waiting channels
    mu,                       \* 0: unlocked, else the exclusive holder
    chan,                     \* the result channel of each task
    gor,                      \* the execGetter goroutine of each key
    clock,                    \* time.Now()
    task,                     \* each caller's position and locals
    ret,                      \* the call that returned in the last step
    called,                   \* the OnEvict call made in the last step
    hist                      \* history variables, kept by the specifications

vars == <<n, ttl, getter, onEvict, cache, lookup, pending, mu, chan, gor,
          clock, task, ret, called, hist>>

config == <<n, ttl, getter, onEvict>>

\* ------------------------------------------------------- internal/linked
zeroValue == 0

NoValue == [key |-> zeroValue, val |-> zeroValue, exp |-> 0]

\* linked.New: the root element linked to itself.
ListNew ==
    [n |-> 0,
     next |-> [e \in 0..MaxNodes |-> IF e = Root THEN Root ELSE Nil],
     prev |-> [e \in 0..MaxNodes |-> IF e = Root THEN Root ELSE Nil],
     Value |-> [e \in Nodes |-> NoValue]]

\* A nil *List: the cache field of a Cache that New did not build. Every
\* method of List reads a field of its receiver, a fault on nil.
NilList ==
    [n |-> Nil,
     next |-> [e \in 0..MaxNodes |-> Nil],
     prev |-> [e \in 0..MaxNodes |-> Nil],
     Value |-> [e \in Nodes |-> NoValue]]

\* Element.Next and Element.Prev: nil for the root element, else the link.
ElementNext(L, e) == IF e = Root THEN Nil ELSE L.next[e]

ElementPrev(L, e) == IF e = Root THEN Nil ELSE L.prev[e]

\* (mutant) the element after the new one keeps its old prev link.
insertOneWay(L, e, at) ==
    LET L1 == [L EXCEPT !.prev[e] = at, !.next[e] = L.next[at]]
        L2 == [L1 EXCEPT !.next[L1.prev[e]] = e]
    IN  [L2 EXCEPT !.n = @ + 1]

\* List.insert: link e after at.
insert(L, e, at) ==
    LET L1 == [L EXCEPT !.prev[e] = at, !.next[e] = L.next[at]]
        L2 == [L1 EXCEPT !.next[L1.prev[e]] = e]
        L3 == [L2 EXCEPT !.prev[L2.next[e]] = e]
    IN  [L3 EXCEPT !.n = @ + 1]

\* List.move dereferences element.prev and element.next: a removed element
\* (both nil) faults unless the early return is taken.
moveFaults(L, element, after) ==
    /\ ~(element = after \/ L.prev[element] = after)
    /\ (L.prev[element] = Nil \/ L.next[element] = Nil)

\* (mutant) move without its early return.
moveAlways(L, element, after) ==
    LET L1 == [L EXCEPT !.next[L.prev[element]] = L.next[element]]
        L2 == [L1 EXCEPT !.prev[L1.next[element]] = L1.prev[element]]
        L3 == [L2 EXCEPT !.prev[element] = after,
                         !.next[element] = L2.next[after]]
        L4 == [L3 EXCEPT !.next[L3.prev[element]] = element]
    IN  [L4 EXCEPT !.prev[L4.next[element]] = element]

move(L, element, after) ==
    IF element = after \/ L.prev[element] = after
    THEN L
    ELSE LET L1 == [L EXCEPT !.next[L.prev[element]] = L.next[element]]
             L2 == [L1 EXCEPT !.prev[L1.next[element]] = L1.prev[element]]
             L3 == [L2 EXCEPT !.prev[element] = after,
                              !.next[element] = L2.next[after]]
             L4 == [L3 EXCEPT !.next[L3.prev[element]] = element]
         IN  [L4 EXCEPT !.prev[L4.next[element]] = element]

Back(L) == IF L.prev[Root] = Root THEN Nil ELSE L.prev[Root]

Front(L) == IF L.next[Root] = Root THEN Nil ELSE L.next[Root]

\* InsertAfter with the new element's address e.
InsertAfter(L, e, v, at) == insert([L EXCEPT !.Value[e] = v], e, at)

\* (mutant) InsertBefore links the new element after at.
InsertBeforeAfter(L, e, v, at) == insert([L EXCEPT !.Value[e] = v], e, at)

\* InsertBefore with the new element's address e.
InsertBefore(L, e, v, at) == insert([L EXCEPT !.Value[e] = v], e, L.prev[at])

ListLen(L) == L.n

MoveAfter(L, e, after) == move(L, e, after)

MoveBefore(L, e, before) == move(L, e, L.prev[before])

MoveToBack(L, e) == move(L, e, L.prev[Root])

PushBack(L, e, v) == InsertAfter(L, e, v, L.prev[Root])

\* (mutant) the element stays where it is.
MoveToFrontStays(L, e) == L

MoveToFront(L, e) == move(L, e, Root)

PushFront(L, e, v) == InsertAfter(L, e, v, Root)

\* List.Remove dereferences e.prev and e.next.
RemoveFaults(L, e) == e = Nil \/ L.prev[e] = Nil \/ L.next[e] = Nil

\* (mutant) Remove leaves the count as it was.
RemoveKeepsCount(L, e) ==
    LET L1 == [L EXCEPT !.next[L.prev[e]] = L.next[e]]
        L2 == [L1 EXCEPT !.prev[L1.next[e]] = L1.prev[e]]
    IN  [L2 EXCEPT !.prev[e] = Nil, !.next[e] = Nil]

Remove(L, e) ==
    LET L1 == [L EXCEPT !.next[L.prev[e]] = L.next[e]]
        L2 == [L1 EXCEPT !.prev[L1.next[e]] = L1.prev[e]]
    IN  [L2 EXCEPT !.prev[e] = Nil, !.next[e] = Nil, !.n = @ - 1]

\* The elements reached from the root by next, front to back.
RECURSIVE Walk(_, _, _)
Walk(L, e, fuel) ==
    IF e = Root \/ e = Nil \/ fuel = 0 THEN <<>>
    ELSE <<e>> \o Walk(L, L.next[e], fuel - 1)

Elements(L) == Walk(L, L.next[Root], MaxNodes + 1)

Linked(L) == {e \in Nodes : L.next[e] # Nil}

\* Memory: an element no task and no link refers to is garbage; its address
\* can be handed out again by the next allocation.
Collect(L, refs) ==
    [L EXCEPT !.Value = [e \in Nodes |->
        IF e \in Linked(L) \/ e \in refs THEN L.Value[e] ELSE NoValue]]

NewElement(L, refs) ==
    CHOOSE e \in Nodes : /\ e \notin Linked(L) \cup refs
                         /\ \A f \in Nodes : f < e => f \in Linked(L) \cup refs


\* ------------------------------------------------------------- lru.Cache
\* The exclusive holder's name: a calling task, or the goroutine of key k.
G(k) == NProcs + k

ErrNil == "nil"

\* new(Cache), and a Cache declared without New: every field has its zero
\* value; a nil map reads as an empty one.
ZeroCache ==
    [n |-> 0, ttl |-> 0, getter |-> FALSE, onEvict |-> FALSE,
     cache |-> NilList,
     lookup |-> [k \in Keys |-> Nil],
     pending |-> [k \in Keys |-> <<>>]]

\* New, lines 341-343: the WithSize options are applied in their order.
RECURSIVE Options(_, _)
Options(cn, sizes) ==
    IF sizes = <<>> THEN cn ELSE Options(Head(sizes), Tail(sizes))

\* (mutant) New keeps a size that is not positive.
NewKeepsSize(optN, optTTL, optGetter, optOnEvict) ==
    [n |-> optN,
     ttl |-> optTTL, getter |-> optGetter, onEvict |-> optOnEvict,
     cache |-> ListNew,
     lookup |-> [k \in Keys |-> Nil],
     pending |-> [k \in Keys |-> <<>>]]

\* New: the options applied, then the default size for n <= 0.
New(optN, optTTL, optGetter, optOnEvict) ==
    [n |-> IF optN <= 0 THEN defaultSize ELSE optN,
     ttl |-> optTTL, getter |-> optGetter, onEvict |-> optOnEvict,
     cache |-> ListNew,
     lookup |-> [k \in Keys |-> Nil],
     pending |-> [k \in Keys |-> <<>>]]

IdleTask == [pc |-> "idle", op |-> "", key |-> 0, val |-> zeroValue,
             el |-> Nil, now |-> 0, fault |-> ""]

NoRet == [p |-> 0, op |-> "", key |-> 0, val |-> zeroValue, err |-> ErrNil,
          set |-> FALSE]

\* No call of the OnEvict callback.
NoCall == [n |-> 0, key |-> 0, val |-> zeroValue, err |-> ErrNil]

NoObs == [found |-> FALSE, exp |-> 0, val |-> zeroValue, t |-> 0, t0 |-> 0,
          v0 |-> zeroValue, evicted |-> FALSE, loaded |-> FALSE,
          pre |-> [k \in Keys |-> -1], tset |-> 0, now |-> 0]

NoHist == [loaderCalls |-> [k \in Keys |-> 0],
           touched |-> <<>>,
           lastSet |-> [k \in Keys |-> zeroValue],
           lastSetTime |-> [k \in Keys |-> 0],
           obs |-> NoObs,
           calls |-> [p \in Procs |-> 0],
           options |-> <<>>,
           built |-> TRUE,
           during |-> [k \in Keys |-> zeroValue]]

\* The program starts with the Cache c, no call made, and the history h.
Started(c, h) ==
    /\ n = c.n /\ ttl = c.ttl /\ getter = c.getter /\ onEvict = c.onEvict
    /\ cache = c.cache /\ lookup = c.lookup /\ pending = c.pending
    /\ mu = 0
    /\ chan = [p \in Procs |-> [st |-> "none", buf |-> <<>>]]
    /\ gor = [k \in Keys |-> [st |-> "idle", value |-> zeroValue, err |-> ErrNil,
                           n |-> 0]]
    /\ clock = 1
    /\ task = [p \in Procs |-> IdleTask]
    /\ ret = NoRet
    /\ called = NoCall
    /\ hist = h

InitWith(sizes, ttls, getters, evicts) ==
    \E s \in sizes, t \in ttls, g \in getters, o \in evicts :
        Started(New(s, t, g, o), NoHist)

\* The handles the tasks of t hold.
Refs(t) == {t[q].el : q \in Procs} \ {Nil}

\* A call of task p returns: its locals die, the result is the step's.
Returned(p, op, k, v, e) ==
    /\ task' = [task EXCEPT ![p] = IdleTask]
    /\ ret' = [p |-> p, op |-> op, key |-> k, val |-> v, err |-> e, set |-> FALSE]

\* A nil dereference in task p while calling f.
Panicked(p, f) ==
    /\ task' = [task EXCEPT ![p].pc = "panicked", ![p].fault = f]
    /\ ret' = NoRet

\* What a call of the OnEvict callback can do.
EvictOutcomes == IF onEvict THEN {ErrNil, "evictErr", "evictPanic"} ELSE {ErrNil}

\* What a call of the Getter can do.
GetterOutcomes ==
    {[value |-> v, err |-> ErrNil] : v \in Vals}
    \cup {[value |-> zeroValue, err |-> "getterErr"],
          [value |-> zeroValue, err |-> "getterPanic"]}

\* Cache.Size
Size == n

\* Cache.Len reads the list length; it takes no lock.
LenCall(p) ==
    /\ task[p].pc = "idle"
    /\ IF cache = NilList
       THEN Panicked(p, "Len")
       ELSE Returned(p, "Len", 0, ListLen(cache), ErrNil)
    /\ called' = NoCall
    /\ UNCHANGED <<config, cache, lookup, pending, mu, chan, gor, clock>>

\* (mutant) an entry is still served at the instant it expires.
UnexpiredAtExpiry(exp, now) == exp = 0 \/ exp >= now

\* Get's test of line 72.
Unexpired(exp, now) == exp = 0 \/ exp > now

\* Get, lines 63-73 and 86: the section under the shared lock.
GetRLock(p, k) ==
    /\ mu = 0
    /\ LET el == lookup[k] IN
       task' = [task EXCEPT ![p].op = "Get", ![p].key = k, ![p].el = el,
                            ![p].pc = IF el = Nil THEN "populateByGetter"
                                      ELSE IF Unexpired(cache.Value[el].exp, clock)
                                           THEN "hit" ELSE "expired"]
    /\ ret' = NoRet
    /\ called' = NoCall
    /\ UNCHANGED <<config, cache, lookup, pending, mu, chan, gor, clock>>

\* A call of Get arrives at its shared section.
GetCall(p, k) == task[p].pc = "idle" /\ GetRLock(p, k)

\* Get's loop comes round to its shared section again.
GetAgain(p) == task[p].pc = "Get" /\ GetRLock(p, task[p].key)

\* (mutant) the hit renews the entry's expiration.
GetHitRenews(p) ==
    /\ task[p].pc = "hit"
    /\ mu = 0
    /\ lookup[task[p].key] # Nil
    /\ ~moveFaults(cache, task[p].el, Root)
    /\ cache' = MoveToFront([cache EXCEPT !.Value[task[p].el].exp =
                                 IF ttl > 0 THEN clock + ttl ELSE 0],
                            task[p].el)
    /\ task' = [task EXCEPT ![p].pc = "hitReturn"]
    /\ ret' = NoRet
    /\ called' = NoCall
    /\ UNCHANGED <<config, lookup, pending, mu, chan, gor, clock>>

\* Get, lines 75-84: the hit path under the exclusive lock.
GetHit(p) ==
    /\ task[p].pc = "hit"
    /\ mu = 0
    /\ LET k == task[p].key
           el == task[p].el
       IN
       IF lookup[k] # Nil
       THEN IF moveFaults(cache, el, Root)
            THEN /\ Panicked(p, "MoveToFront")
                 /\ mu' = p
                 /\ cache' = cache
            ELSE /\ cache' = MoveToFront(cache, el)
                 /\ task' = [task EXCEPT ![p].pc = "hitReturn"]
                 /\ ret' = NoRet
                 /\ mu' = mu
       ELSE /\ task' = [task EXCEPT ![p].pc = "Get", ![p].el = Nil]
            /\ cache' = Collect(cache, Refs(task'))
            /\ ret' = NoRet
            /\ mu' = mu
    /\ called' = NoCall
    /\ UNCHANGED <<config, lookup, pending, chan, gor, clock>>

\* (mutant) the hit returns the zero value.
GetHitReturnZero(p) ==
    /\ task[p].pc = "hitReturn"
    /\ Returned(p, "Get", task[p].key, zeroValue, ErrNil)
    /\ cache' = Collect(cache, Refs(task'))
    /\ called' = NoCall
    /\ UNCHANGED <<config, lookup, pending, mu, chan, gor, clock>>

\* Get, line 81: el.Value.val is read after the lock is released.
GetHitReturn(p) ==
    /\ task[p].pc = "hitReturn"
    /\ Returned(p, "Get", task[p].key, cache.Value[task[p].el].val, ErrNil)
    /\ cache' = Collect(cache, Refs(task'))
    /\ called' = NoCall
    /\ UNCHANGED <<config, lookup, pending, mu, chan, gor, clock>>

\* Cache.evict, lines 232-233: the element leaves the list and the index.
evictFaults(el) == RemoveFaults(cache, el)

\* (mutant) the element stays in the list.
evictListKeeps(el) == cache

evictList(el) == Remove(cache, el)

\* (mutant) the key stays in the index.
evictLookupKeeps(el) == lookup

evictLookup(el) == [lookup EXCEPT ![cache.Value[el].key] = Nil]

\* (mutant) the callback is given the zero value.
evictCallZero(el, out) ==
    IF onEvict
    THEN [n |-> 1, key |-> cache.Value[el].key, val |-> zeroValue, err |-> out]
    ELSE NoCall

\* Cache.evict, lines 235-250: the callback, if one is set, is called with
\* the element's value; out is what it does.
evictCall(el, out) ==
    IF onEvict
    THEN [n |-> 1, key |-> cache.Value[el].key, val |-> cache.Value[el].val,
          err |-> out]
    ELSE NoCall

\* (mutant) Get goes on to populateByGetter whatever evict returned.
GetExpiredContinues(p) ==
    /\ task[p].pc = "expired"
    /\ mu = 0
    /\ ~evictFaults(task[p].el)
    /\ \E out \in EvictOutcomes :
         /\ lookup' = evictLookup(task[p].el)
         /\ called' = evictCall(task[p].el, out)
    /\ task' = [task EXCEPT ![p].pc = "populateByGetter", ![p].el = Nil]
    /\ ret' = NoRet
    /\ cache' = Collect(evictList(task[p].el), Refs(task'))
    /\ UNCHANGED <<config, pending, mu, chan, gor, clock>>

\* (mutant) Get returns the callback's failure with the lock still held.
GetExpiredKeepsLock(p) ==
    /\ task[p].pc = "expired"
    /\ mu = 0
    /\ ~evictFaults(task[p].el)
    /\ \E out \in EvictOutcomes :
          /\ lookup' = evictLookup(task[p].el)
          /\ called' = evictCall(task[p].el, out)
          /\ IF out # ErrNil
             THEN /\ Returned(p, "Get", task[p].key, zeroValue, out)
                  /\ mu' = p
             ELSE /\ task' = [task EXCEPT ![p].pc = "populateByGetter",
                                          ![p].el = Nil]
                  /\ ret' = NoRet
                  /\ mu' = mu
          /\ cache' = Collect(evictList(task[p].el), Refs(task'))
    /\ UNCHANGED <<config, pending, chan, gor, clock>>

\* Get, lines 86-97: the expired path under the exclusive lock.
GetExpired(p) ==
    /\ task[p].pc = "expired"
    /\ mu = 0
    /\ LET k == task[p].key
           el == task[p].el
       IN
       IF evictFaults(el)
       THEN /\ Panicked(p, "Remove")
            /\ mu' = p
            /\ called' = NoCall
            /\ UNCHANGED <<cache, lookup>>
       ELSE \E out \in EvictOutcomes :
            /\ lookup' = evictLookup(el)
            /\ called' = evictCall(el, out)
            /\ IF out # ErrNil
               THEN Returned(p, "Get", k, zeroValue, out)
               ELSE /\ task' = [task EXCEPT ![p].pc = "populateByGetter",
                                            ![p].el = Nil]
                    /\ ret' = NoRet
            /\ cache' = Collect(evictList(el), Refs(task'))
            /\ mu' = mu
    /\ UNCHANGED <<config, pending, chan, gor, clock>>

\* Get's expiry path in two steps, for what a call that takes no lock can
\* see of it. Lines 88-89 and 232-233: the lock is taken and the element
\* leaves the list and the index; without a callback evict returns at once.
GetExpiredRemove(p) ==
    /\ task[p].pc = "expired"
    /\ mu = 0
    /\ LET el == task[p].el IN
       IF evictFaults(el)
       THEN /\ Panicked(p, "Remove")
            /\ mu' = p
            /\ UNCHANGED <<cache, lookup>>
       ELSE /\ lookup' = evictLookup(el)
            /\ task' = [task EXCEPT
                           ![p].pc = IF onEvict THEN "onEvict" ELSE "populateByGetter",
                           ![p].el = IF onEvict THEN el ELSE Nil]
            /\ cache' = Collect(evictList(el), Refs(task'))
            /\ mu' = IF onEvict THEN p ELSE mu
            /\ ret' = NoRet
    /\ called' = NoCall
    /\ UNCHANGED <<config, pending, chan, gor, clock>>

\* Lines 235-250 and 90-96: the callback ends, the lock is released, and
\* Get returns the failure or goes on to populateByGetter.
GetExpiredCallback(p) ==
    /\ task[p].pc = "onEvict"
    /\ mu = p
    /\ \E out \in EvictOutcomes :
          /\ called' = evictCall(task[p].el, out)
          /\ IF out # ErrNil
             THEN Returned(p, "Get", task[p].key, zeroValue, out)
             ELSE /\ task' = [task EXCEPT ![p].pc = "populateByGetter",
                                          ![p].el = Nil]
                  /\ ret' = NoRet
    /\ cache' = Collect(cache, Refs(task'))
    /\ mu' = 0
    /\ UNCHANGED <<config, lookup, pending, chan, gor, clock>>

\* (mutant) only the first registered channel is sent to.
BroadcastFirst(chs, q, msg) ==
    IF q = <<>> THEN [chan |-> chs, status |-> "ok"]
    ELSE [chan |-> [chs EXCEPT ![Head(q)].buf = Append(@, msg)], status |-> "ok"]

\* execGetter's loop over c.pending[key]: a send on a closed channel panics,
\* a send on a channel whose buffer is full blocks.
RECURSIVE Broadcast(_, _, _)
Broadcast(chs, q, msg) ==
    IF q = <<>> THEN [chan |-> chs, status |-> "ok"]
    ELSE LET c == Head(q) IN
         IF chs[c].st # "open" THEN [chan |-> chs, status |-> "panicked"]
         ELSE IF Len(chs[c].buf) >= 1 THEN [chan |-> chs, status |-> "blocked"]
         ELSE Broadcast([chs EXCEPT ![c].buf = Append(@, msg)], Tail(q), msg)

\* (mutant) without a getter the miss is reported as a nil error.
PopulateByGetterNil(p) ==
    /\ task[p].pc = "populateByGetter"
    /\ ~getter
    /\ Returned(p, "Get", task[p].key, zeroValue, ErrNil)
    /\ called' = NoCall
    /\ UNCHANGED <<config, cache, lookup, pending, mu, chan, gor, clock>>

\* (mutant) the getter is run with the lock held: the lock goes to the
\* goroutine at the registration that starts it.
PopulateByGetterLocked(p) ==
    /\ task[p].pc = "populateByGetter"
    /\ getter
    /\ mu = 0
    /\ chan' = [chan EXCEPT ![p] = [st |-> "open", buf |-> <<>>]]
    /\ pending' = [pending EXCEPT ![task[p].key] = Append(@, p)]
    /\ gor' = IF Len(pending'[task[p].key]) = 1
              THEN [gor EXCEPT ![task[p].key].st = "running", ![task[p].key].n = @ + 1]
              ELSE gor
    /\ mu' = IF Len(pending'[task[p].key]) = 1 THEN G(task[p].key) ELSE mu
    /\ task' = [task EXCEPT ![p].pc = "recv"]
    /\ ret' = NoRet
    /\ called' = NoCall
    /\ UNCHANGED <<config, cache, lookup, clock>>

\* populateByGetter, lines 103-119: not found without a getter; else the
\* registration under the exclusive lock and, for the first registrant,
\* go c.execGetter.
PopulateByGetter(p) ==
    /\ task[p].pc = "populateByGetter"
    /\ LET k == task[p].key IN
       IF ~getter
       THEN /\ Returned(p, "Get", k, zeroValue, "ErrNotFound")
            /\ UNCHANGED <<pending, chan, gor>>
       ELSE /\ mu = 0
            /\ chan' = [chan EXCEPT ![p] = [st |-> "open", buf |-> <<>>]]
            /\ pending' = [pending EXCEPT ![k] = Append(@, p)]
            /\ gor' = IF Len(pending'[k]) = 1
                      THEN [gor EXCEPT ![k].st = "running", ![k].n = @ + 1]
                      ELSE gor
            /\ task' = [task EXCEPT ![p].pc = "recv"]
            /\ ret' = NoRet
    /\ called' = NoCall
    /\ UNCHANGED <<config, cache, lookup, mu, clock>>

\* (mutant) a panic of the getter is not recovered: the goroutine dies.
ExecGetterCallUnrecovered(k) ==
    /\ gor[k].st = "running"
    /\ \E out \in GetterOutcomes :
         gor' = [gor EXCEPT ![k].st = IF out.err = "getterPanic" THEN "panicked"
                                      ELSE "done",
                            ![k].value = out.value, ![k].err = out.err]
    /\ ret' = NoRet
    /\ called' = NoCall
    /\ UNCHANGED <<config, cache, lookup, pending, mu, chan, clock, task>>

\* execGetter, lines 158-161 and 144-146: the getter runs, outside the lock.
ExecGetterCall(k) ==
    /\ gor[k].st = "running"
    /\ \E out \in GetterOutcomes :
         gor' = [gor EXCEPT ![k].st = "done", ![k].value = out.value,
                            ![k].err = out.err]
    /\ ret' = NoRet
    /\ called' = NoCall
    /\ UNCHANGED <<config, cache, lookup, pending, mu, chan, clock, task>>

\* execGetter, lines 148-155: the result goes to every pending channel and
\* the registry entry is deleted, under the exclusive lock.
ExecGetterSend(k) ==
    /\ gor[k].st = "done"
    /\ mu = 0
    /\ LET msg == [value |-> gor[k].value, err |-> gor[k].err]
           r == Broadcast(chan, pending[k], msg)
       IN
       /\ chan' = r.chan
       /\ IF r.status = "ok"
          THEN /\ pending' = [pending EXCEPT ![k] = <<>>]
               /\ gor' = [gor EXCEPT ![k] = [st |-> "idle", value |-> zeroValue,
                                             err |-> ErrNil, n |-> gor[k].n - 1]]
               /\ mu' = mu
          ELSE /\ gor' = [gor EXCEPT ![k].st = r.status]
               /\ mu' = G(k)
               /\ pending' = pending
    /\ ret' = NoRet
    /\ called' = NoCall
    /\ UNCHANGED <<config, cache, lookup, clock, task>>

\* (mutant) the getter's failure is stored like a value.
RecvStoresFailure(p) ==
    /\ task[p].pc = "recv"
    /\ chan[p].st = "open"
    /\ Len(chan[p].buf) > 0
    /\ task' = [task EXCEPT ![p].pc = "Set", ![p].val = Head(chan[p].buf).value]
    /\ chan' = [chan EXCEPT ![p].buf = Tail(@)]
    /\ ret' = NoRet
    /\ called' = NoCall
    /\ UNCHANGED <<config, cache, lookup, pending, mu, gor, clock>>

\* populateByGetter, lines 121-125: the result arrives; an error is returned
\* (and the deferred close(ch) runs), a value goes on to Set.
Recv(p) ==
    /\ task[p].pc = "recv"
    /\ chan[p].st = "open"
    /\ Len(chan[p].buf) > 0
    /\ LET msg == Head(chan[p].buf) IN
       IF msg.err # ErrNil
       THEN /\ Returned(p, "Get", task[p].key, zeroValue, msg.err)
            /\ chan' = [chan EXCEPT ![p] = [st |-> "closed", buf |-> <<>>]]
       ELSE /\ task' = [task EXCEPT ![p].pc = "Set", ![p].val = msg.value]
            /\ chan' = [chan EXCEPT ![p].buf = Tail(@)]
            /\ ret' = NoRet
    /\ called' = NoCall
    /\ UNCHANGED <<config, cache, lookup, pending, mu, gor, clock>>

\* Set returns err (its deferred Unlock runs); a Set made by populateByGetter
\* returns to Get, lines 128-133, where the deferred close(ch) runs.
SetReturns(p, op, k, value, err) ==
    /\ mu' = 0
    /\ task' = [task EXCEPT ![p] = IdleTask]
    /\ IF op = "Set"
       THEN /\ ret' = [p |-> p, op |-> "Set", key |-> k, val |-> value,
                       err |-> err, set |-> TRUE]
            /\ chan' = chan
       ELSE /\ ret' = [p |-> p, op |-> "Get", key |-> k,
                       val |-> IF err = ErrNil THEN value ELSE zeroValue,
                       err |-> err, set |-> TRUE]
            /\ chan' = [chan EXCEPT ![p] = [st |-> "closed", buf |-> <<>>]]

\* (mutant) the expiration is the time of the Set.
ExpirationNow == IF ttl > 0 THEN clock ELSE 0

\* Set, lines 194-197.
Expiration == IF ttl > 0 THEN clock + ttl ELSE 0

\* (mutant) the update in place leaves the old value.
UpdateKeepsValue(L, el, value, exp) == [L EXCEPT !.Value[el].exp = exp]

\* Set, lines 201-202: the element's value and expiration are overwritten.
Update(L, el, value, exp) ==
    [L EXCEPT !.Value[el].val = value, !.Value[el].exp = exp]

\* Set, lines 191-216: the update in place, or the insertion at the front.
SetLock(p, op, k, value) ==
    /\ mu = 0
    /\ LET exp == Expiration
           el == lookup[k]
       IN
       IF el # Nil
       THEN LET c == Update(cache, el, value, exp)
            IN  /\ lookup' = lookup
                /\ IF moveFaults(c, el, Root)
                   THEN /\ Panicked(p, "MoveToFront")
                        /\ UNCHANGED <<cache, mu, chan>>
                   ELSE /\ SetReturns(p, op, k, value, ErrNil)
                        /\ cache' = Collect(MoveToFront(c, el), Refs(task'))
       ELSE IF cache = NilList
       THEN /\ Panicked(p, "PushFront")
            /\ UNCHANGED <<cache, lookup, mu, chan>>
       ELSE LET e == NewElement(cache, Refs(task))
                c == PushFront(cache, e, [key |-> k, val |-> value, exp |-> exp])
            IN  /\ lookup' = [lookup EXCEPT ![k] = e]
                /\ IF ListLen(c) <= n
                   THEN /\ SetReturns(p, op, k, value, ErrNil)
                        /\ cache' = Collect(c, Refs(task'))
                   ELSE /\ task' = [task EXCEPT ![p].pc = "evictExpired",
                                                ![p].op = op, ![p].key = k,
                                                ![p].val = value]
                        /\ cache' = c
                        /\ mu' = p
                        /\ chan' = chan
                        /\ ret' = NoRet
    /\ called' = NoCall
    /\ UNCHANGED <<config, pending, gor, clock>>

\* A call of Set arrives at its lock.
SetCall(p, k, value) == task[p].pc = "idle" /\ SetLock(p, "Set", k, value)

\* (mutant) populateByGetter returns the getter's value without storing it.
PopulateSetSkips(p) ==
    /\ task[p].pc = "Set"
    /\ mu = 0
    /\ SetReturns(p, "Get", task[p].key, task[p].val, ErrNil)
    /\ cache' = Collect(cache, Refs(task'))
    /\ called' = NoCall
    /\ UNCHANGED <<config, lookup, pending, gor, clock>>

\* populateByGetter, line 128: Set of the value the getter gave.
PopulateSet(p) == task[p].pc = "Set" /\ SetLock(p, "Get", task[p].key, task[p].val)

\* (mutant) the sweep goes on after a callback's failure.
SetEvictSwallows(p, el, out, next) ==
    /\ ~evictFaults(el)
    /\ lookup' = evictLookup(el)
    /\ called' = evictCall(el, out)
    /\ IF next = "return"
       THEN SetReturns(p, task[p].op, task[p].key, task[p].val, out)
       ELSE /\ task' = [task EXCEPT ![p].pc = next]
            /\ ret' = NoRet
            /\ UNCHANGED <<mu, chan>>
    /\ cache' = Collect(evictList(el), Refs(task'))

\* evict called by Set on element el: a fault leaves Set through its
\* deferred Unlock, else the callback's result is evict's.
SetEvict(p, el, out, next) ==
    IF evictFaults(el)
    THEN /\ Panicked(p, "Remove")
         /\ mu' = 0
         /\ called' = NoCall
         /\ UNCHANGED <<cache, lookup, chan>>
    ELSE /\ lookup' = evictLookup(el)
         /\ called' = evictCall(el, out)
         /\ IF out # ErrNil \/ next = "return"
            THEN SetReturns(p, task[p].op, task[p].key, task[p].val, out)
            ELSE /\ task' = [task EXCEPT ![p].pc = next]
                 /\ ret' = NoRet
                 /\ UNCHANGED <<mu, chan>>
         /\ cache' = Collect(evictList(el), Refs(task'))

\* (mutant) Set returns without the eviction of the least recently used.
SetCapacityKeeps(p) ==
    /\ SetReturns(p, task[p].op, task[p].key, task[p].val, ErrNil)
    /\ cache' = Collect(cache, Refs(task'))
    /\ lookup' = lookup
    /\ called' = NoCall

\* Set, lines 223-227: the least recently used element goes if the cache is
\* still over its size.
SetCapacity(p) ==
    IF ListLen(cache) <= n
    THEN /\ SetReturns(p, task[p].op, task[p].key, task[p].val, ErrNil)
         /\ cache' = Collect(cache, Refs(task'))
         /\ lookup' = lookup
         /\ called' = NoCall
    ELSE \E out \in EvictOutcomes : SetEvict(p, Back(cache), out, "return")

\* (mutant) the sweep runs whatever the ttl.
EvictExpiredAlways(p) ==
    /\ task[p].pc = "evictExpired"
    /\ mu = p
    /\ task' = [task EXCEPT ![p].pc = "sweep", ![p].now = clock]
    /\ ret' = NoRet
    /\ called' = NoCall
    /\ UNCHANGED <<config, cache, lookup, mu, chan, pending, gor, clock>>

\* evictExpired, lines 257-261: nothing to sweep with ttl 0, else time.Now().
EvictExpired(p) ==
    /\ task[p].pc = "evictExpired"
    /\ mu = p
    /\ IF ttl = 0
       THEN SetCapacity(p)
       ELSE /\ task' = [task EXCEPT ![p].pc = "sweep", ![p].now = clock]
            /\ ret' = NoRet
            /\ called' = NoCall
            /\ UNCHANGED <<cache, lookup, mu, chan>>
    /\ UNCHANGED <<config, pending, gor, clock>>

\* (mutant) the loop only takes entries that expired before now.
ExpiredBefore(now) ==
    {lookup[k] : k \in {j \in Keys : lookup[j] # Nil
                                      /\ cache.Value[lookup[j]].exp < now}}

\* The elements evictExpired's loop does not skip (line 264).
Expired(now) ==
    {lookup[k] : k \in {j \in Keys : lookup[j] # Nil
                                      /\ ~(cache.Value[lookup[j]].exp > now)}}

\* evictExpired, lines 263-274: one iteration that evicts (the map's order is
\* any), or the end of the loop and Set's lines 223-227.
Sweep(p) ==
    /\ task[p].pc = "sweep"
    /\ mu = p
    /\ IF Expired(task[p].now) # {}
       THEN \E el \in Expired(task[p].now), out \in EvictOutcomes :
               SetEvict(p, el, out, "sweep")
       ELSE SetCapacity(p)
    /\ UNCHANGED <<config, pending, gor, clock>>

\* Time passes.
Tick ==
    /\ clock < MaxTime
    /\ clock' = clock + 1
    /\ ret' = NoRet
    /\ called' = NoCall
    /\ UNCHANGED <<config, cache, lookup, pending, mu, chan, gor, task>>

\* --------------------------------------------------------- specifications
\* Spec: tasks call Get, Set and Len concurrently, on a small cache.
Init == InitWith(ConcSizes, TTLs, BOOLEAN, BOOLEAN)

Next ==
    \/ \E p \in Procs : LenCall(p) /\ UNCHANGED hist
    \/ \E p \in Procs, k \in ConcKeys : GetCall(p, k) /\ UNCHANGED hist
    \/ \E p \in Procs : GetAgain(p) /\ UNCHANGED hist
    \/ \E p \in Procs : GetHit(p) /\ UNCHANGED hist
    \/ \E p \in Procs : GetHitReturn(p) /\ UNCHANGED hist
    \/ \E p \in Procs : GetExpired(p) /\ UNCHANGED hist
    \/ \E p \in Procs : PopulateByGetter(p) /\ UNCHANGED hist
    \/ \E p \in Procs : Recv(p) /\ UNCHANGED hist
    \/ \E p \in Procs : PopulateSet(p) /\ UNCHANGED hist
    \/ \E p \in Procs, k \in ConcKeys, v \in Vals : SetCall(p, k, v) /\ UNCHANGED hist
    \/ \E p \in Procs : EvictExpired(p) /\ UNCHANGED hist
    \/ \E p \in Procs : Sweep(p) /\ UNCHANGED hist
    \/ \E k \in Keys : ExecGetterCall(k) /\ UNCHANGED hist
    \/ \E k \in Keys : ExecGetterSend(k) /\ UNCHANGED hist
    \/ Tick /\ UNCHANGED hist

Spec == Init /\ [][Next]_vars

\* LiveSpec: Spec on a cache with a getter, where a call that has begun
\* goes on whenever it can (a task that waits for the lock gets it if the
\* lock is free again and again) and so does a getter's goroutine: every
\* execution of the getter ends.
TaskStep(p) ==
    \/ GetAgain(p) \/ GetHit(p) \/ GetHitReturn(p) \/ GetExpired(p)
    \/ PopulateByGetter(p) \/ Recv(p) \/ PopulateSet(p)
    \/ EvictExpired(p) \/ Sweep(p)

GoroutineStep(k) == ExecGetterCall(k) \/ ExecGetterSend(k)

LiveInit == InitWith(ConcSizes, TTLs, {TRUE}, BOOLEAN)

LiveFair ==
    /\ \A p \in Procs : SF_vars(TaskStep(p) /\ UNCHANGED hist)
    /\ \A k \in Keys : SF_vars(GoroutineStep(k) /\ UNCHANGED hist)

LiveSpec == LiveInit /\ [][Next]_vars /\ LiveFair

\* CallbackSpec: tasks call Get, Set and Len concurrently on a cache with a
\* TTL and a callback and no getter; the eviction of Get's expiry path
\* takes two steps, the callback running between them.
CallbackInit == InitWith(ConcSizes, {MaxTTL}, {FALSE}, {TRUE})

CallbackNext ==
    \/ \E p \in Procs : LenCall(p) /\ UNCHANGED hist
    \/ \E p \in Procs, k \in ConcKeys : GetCall(p, k) /\ UNCHANGED hist
    \/ \E p \in Procs : GetAgain(p) /\ UNCHANGED hist
    \/ \E p \in Procs : GetHit(p) /\ UNCHANGED hist
    \/ \E p \in Procs : GetHitReturn(p) /\ UNCHANGED hist
    \/ \E p \in Procs : GetExpiredRemove(p) /\ UNCHANGED hist
    \/ \E p \in Procs : GetExpiredCallback(p) /\ UNCHANGED hist
    \/ \E p \in Procs : PopulateByGetter(p) /\ UNCHANGED hist
    \/ \E p \in Procs, k \in ConcKeys, v \in Vals : SetCall(p, k, v) /\ UNCHANGED hist
    \/ \E p \in Procs : EvictExpired(p) /\ UNCHANGED hist
    \/ \E p \in Procs : Sweep(p) /\ UNCHANGED hist
    \/ Tick /\ UNCHANGED hist

CallbackSpec == CallbackInit /\ [][CallbackNext]_vars

\* WriteLoadSpec: tasks call Get and Set on a cache with a getter, no TTL,
\* no callback and room for every key. The history keeps, for each key,
\* the value of the last Set if that Set was made while a load of the key
\* was under way: its goroutine running or yet to send, or a caller yet to
\* store what it received.
Loading(k) ==
    \/ gor[k].st # "idle"
    \/ \E p \in Procs : task[p].key = k /\ task[p].pc \in {"recv", "Set"}

RecDuring(k, v) ==
    hist' = [hist EXCEPT !.during[k] = IF Loading(k) THEN v ELSE zeroValue]

WriteLoadInit == InitWith({NConcKeys}, {0}, {TRUE}, {FALSE})

WriteLoadNext ==
    \/ \E p \in Procs, k \in ConcKeys : GetCall(p, k) /\ UNCHANGED hist
    \/ \E p \in Procs : GetHit(p) /\ UNCHANGED hist
    \/ \E p \in Procs : GetHitReturn(p) /\ UNCHANGED hist
    \/ \E p \in Procs : PopulateByGetter(p) /\ UNCHANGED hist
    \/ \E p \in Procs : Recv(p) /\ UNCHANGED hist
    \/ \E p \in Procs : PopulateSet(p) /\ UNCHANGED hist
    \/ \E p \in Procs, k \in ConcKeys, v \in Vals : SetCall(p, k, v) /\ RecDuring(k, v)
    \/ \E k \in Keys : ExecGetterCall(k) /\ UNCHANGED hist
    \/ \E k \in Keys : ExecGetterSend(k) /\ UNCHANGED hist

WriteLoadSpec == WriteLoadInit /\ [][WriteLoadNext]_vars

\* ListSpec: the list on its own. Any method is called with any value and
\* any handles of elements that are in the list; ret holds the call's name,
\* the handle it was given or returns, and the value it returns.
MaxListLen == 4

Handles == {e \in Nodes : cache.next[e] # Nil}

ListValue(v) == [key |-> zeroValue, val |-> v, exp |-> 0]

ListDid(op, h, v, L) ==
    /\ cache' = Collect(L, {})
    /\ ret' = [NoRet EXCEPT !.op = op, !.key = h, !.val = v]
    /\ UNCHANGED <<config, lookup, pending, mu, chan, gor, clock, task, called, hist>>

ListPushFront(v) ==
    /\ ListLen(cache) < MaxListLen
    /\ LET e == NewElement(cache, {}) IN
       ListDid("PushFront", e, v, PushFront(cache, e, ListValue(v)))

ListPushBack(v) ==
    /\ ListLen(cache) < MaxListLen
    /\ LET e == NewElement(cache, {}) IN
       ListDid("PushBack", e, v, PushBack(cache, e, ListValue(v)))

ListInsertAfter(v, at) ==
    /\ ListLen(cache) < MaxListLen
    /\ at \in Handles
    /\ LET e == NewElement(cache, {}) IN
       ListDid("InsertAfter", e, v, InsertAfter(cache, e, ListValue(v), at))

ListInsertBefore(v, at) ==
    /\ ListLen(cache) < MaxListLen
    /\ at \in Handles
    /\ LET e == NewElement(cache, {}) IN
       ListDid("InsertBefore", e, v, InsertBefore(cache, e, ListValue(v), at))

ListRemove(h) ==
    /\ h \in Handles
    /\ ListDid("Remove", h, cache.Value[h].val, Remove(cache, h))

ListMoveAfter(h, after) ==
    /\ h \in Handles /\ after \in Handles
    /\ ListDid("MoveAfter", h, zeroValue, MoveAfter(cache, h, after))

ListMoveBefore(h, before) ==
    /\ h \in Handles /\ before \in Handles
    /\ ListDid("MoveBefore", h, zeroValue, MoveBefore(cache, h, before))

ListMoveToBack(h) ==
    /\ h \in Handles
    /\ ListDid("MoveToBack", h, zeroValue, MoveToBack(cache, h))

ListMoveToFront(h) ==
    /\ h \in Handles
    /\ ListDid("MoveToFront", h, zeroValue, MoveToFront(cache, h))

ListFront ==
    /\ cache.n >= 0
    /\ ListDid("Front", Front(cache), zeroValue, cache)

ListBack ==
    /\ cache.n >= 0
    /\ ListDid("Back", Back(cache), zeroValue, cache)

ListElementNext(h) ==
    /\ h \in Handles
    /\ ListDid("Next", ElementNext(cache, h), zeroValue, cache)

ListElementPrev(h) ==
    /\ h \in Handles
    /\ ListDid("Prev", ElementPrev(cache, h), zeroValue, cache)

ListInit == InitWith({NKeys}, {0}, {FALSE}, {FALSE})

ListNext ==
    \/ \E v \in Vals : ListPushFront(v)
    \/ \E v \in Vals : ListPushBack(v)
    \/ \E v \in Vals, at \in Nodes : ListInsertAfter(v, at)
    \/ \E v \in Vals, at \in Nodes : ListInsertBefore(v, at)
    \/ \E h \in Nodes : ListRemove(h)
    \/ \E h \in Nodes, after \in Nodes : ListMoveAfter(h, after)
    \/ \E h \in Nodes, before \in Nodes : ListMoveBefore(h, before)
    \/ \E h \in Nodes : ListMoveToBack(h)
    \/ \E h \in Nodes : ListMoveToFront(h)
    \/ ListFront
    \/ ListBack
    \/ \E h \in Nodes : ListElementNext(h)
    \/ \E h \in Nodes : ListElementPrev(h)

ListSpec == ListInit /\ [][ListNext]_vars

\* LoadSpec: tasks only call Get, on a cache with a getter that succeeds, no
\* TTL and room for every key; the history counts the getter's executions.
LoadInit == InitWith({NConcKeys}, {0}, {TRUE}, BOOLEAN)

LoadNext ==
    \/ \E p \in Procs, k \in ConcKeys : GetCall(p, k) /\ UNCHANGED hist
    \/ \E p \in Procs : GetHit(p) /\ UNCHANGED hist
    \/ \E p \in Procs : GetHitReturn(p) /\ UNCHANGED hist
    \/ \E p \in Procs : PopulateByGetter(p) /\ UNCHANGED hist
    \/ \E p \in Procs : Recv(p) /\ UNCHANGED hist
    \/ \E p \in Procs : PopulateSet(p) /\ UNCHANGED hist
    \/ \E k \in Keys : /\ ExecGetterCall(k)
                       /\ gor'[k].err = ErrNil
                       /\ hist' = [hist EXCEPT !.loaderCalls[k] = @ + 1]
    \/ \E k \in Keys : ExecGetterSend(k) /\ UNCHANGED hist

LoadSpec == LoadInit /\ [][LoadNext]_vars

\* SlowSpec: the tasks call Get and Set on a cache with a getter, no TTL and
\* room for every key, and the getter never returns for the key SlowKey.
\* A task that can take its next step takes it; the getter of another key
\* returns.
SlowKey == CHOOSE k \in ConcKeys : \A j \in ConcKeys : k <= j

SlowNext ==
    \/ \E p \in Procs, k \in ConcKeys : GetCall(p, k) /\ UNCHANGED hist
    \/ \E p \in Procs : GetHit(p) /\ UNCHANGED hist
    \/ \E p \in Procs : GetHitReturn(p) /\ UNCHANGED hist
    \/ \E p \in Procs : PopulateByGetter(p) /\ UNCHANGED hist
    \/ \E p \in Procs : Recv(p) /\ UNCHANGED hist
    \/ \E p \in Procs : PopulateSet(p) /\ UNCHANGED hist
    \/ \E p \in Procs, k \in ConcKeys, v \in Vals : SetCall(p, k, v) /\ UNCHANGED hist
    \/ \E k \in Keys \ {SlowKey} : ExecGetterCall(k) /\ UNCHANGED hist
    \/ \E k \in Keys : ExecGetterSend(k) /\ UNCHANGED hist

SlowFair ==
    /\ \A p \in Procs :
          /\ WF_vars(GetHit(p) /\ UNCHANGED hist)
          /\ WF_vars(GetHitReturn(p) /\ UNCHANGED hist)
          /\ WF_vars(PopulateByGetter(p) /\ UNCHANGED hist)
          /\ WF_vars(Recv(p) /\ UNCHANGED hist)
          /\ WF_vars(PopulateSet(p) /\ UNCHANGED hist)
    /\ \A k \in Keys \ {SlowKey} : WF_vars(ExecGetterCall(k) /\ UNCHANGED hist)
    /\ \A k \in Keys : WF_vars(ExecGetterSend(k) /\ UNCHANGED hist)

SlowSpec == LoadInit /\ [][SlowNext]_vars /\ SlowFair

\* GetAndSetSpec: one task Sets each key in order with the key as its value
\* while another Gets each key in order; no TTL, no callback, any size up to
\* the number of keys, with or without a getter that returns the key. The
\* history counts the calls each task has made.
Setter == CHOOSE p \in Procs : \A q \in Procs : p <= q

Getter == CHOOSE p \in Procs : p # Setter

\* The getter of the test: it returns the key.
KeyGetterCall(k) ==
    /\ gor[k].st = "running"
    /\ gor' = [gor EXCEPT ![k].st = "done", ![k].value = k, ![k].err = ErrNil]
    /\ ret' = NoRet
    /\ called' = NoCall
    /\ UNCHANGED <<config, cache, lookup, pending, mu, chan, clock, task>>

\* Task p makes its next call, on the next key.
NextCall(p, k) ==
    /\ k = hist.calls[p] + 1
    /\ hist' = [hist EXCEPT !.calls[p] = k]

\* Task p has made all its calls and the last has returned.
Finished(p) == hist.calls[p] = NKeys /\ task[p].pc = "idle"

GetAndSetInit == InitWith(Keys, {0}, BOOLEAN, {FALSE})

GetAndSetNext ==
    \/ \E k \in Keys : SetCall(Setter, k, k) /\ NextCall(Setter, k)
    \/ \E p \in Procs : EvictExpired(p) /\ UNCHANGED hist
    \/ \E k \in Keys : GetCall(Getter, k) /\ NextCall(Getter, k)
    \/ GetAgain(Getter) /\ UNCHANGED hist
    \/ GetHit(Getter) /\ UNCHANGED hist
    \/ GetHitReturn(Getter) /\ UNCHANGED hist
    \/ PopulateByGetter(Getter) /\ UNCHANGED hist
    \/ Recv(Getter) /\ UNCHANGED hist
    \/ PopulateSet(Getter) /\ UNCHANGED hist
    \/ \E k \in Keys : KeyGetterCall(k) /\ UNCHANGED hist
    \/ \E k \in Keys : ExecGetterSend(k) /\ UNCHANGED hist

GetAndSetSpec == GetAndSetInit /\ [][GetAndSetNext]_vars

\* SeqSpec: one task makes one call at a time. The history keeps the keys in
\* the order of their last touch, the last Set of each key that is still
\* cached, and what the Get in progress saw under the shared lock.
Touch(seq, k) == <<k>> \o SelectSeq(seq, LAMBDA x : x # k)

Caller == CHOOSE p \in Procs : \A q \in Procs : p <= q

\* The history of the next state: a key that left the index is forgotten,
\* and so is what the last call saw once a step has followed its return.
Kept(h) ==
    [h EXCEPT
        !.lastSet = [k \in Keys |-> IF lookup'[k] = Nil THEN zeroValue ELSE @[k]],
        !.lastSetTime = [k \in Keys |-> IF lookup'[k] = Nil THEN 0 ELSE @[k]],
        !.obs = IF task'[Caller].pc = "idle" /\ ret' = NoRet THEN NoObs ELSE @]

\* What a call for key k sees of the cache as it arrives.
Seen(k) ==
    [found |-> lookup[k] # Nil,
     exp |-> IF lookup[k] = Nil THEN 0 ELSE cache.Value[lookup[k]].exp,
     val |-> IF lookup[k] = Nil THEN zeroValue ELSE cache.Value[lookup[k]].val,
     t |-> clock, t0 |-> hist.lastSetTime[k], v0 |-> hist.lastSet[k],
     evicted |-> FALSE, loaded |-> FALSE,
     pre |-> NoObs.pre, tset |-> 0, now |-> 0]

\* The expiration of each key's entry, -1 for a key that has none.
Exps == [k \in Keys |-> IF lookup[k] = Nil THEN -1 ELSE cache.Value[lookup[k]].exp]

\* What Set finds as it takes the lock.
SetSeen(o) == [o EXCEPT !.pre = Exps, !.tset = clock]

\* A Set of value under key k writes at this step.
Written(h, k, value) ==
    [h EXCEPT !.touched = Touch(@, k), !.lastSet[k] = value,
              !.lastSetTime[k] = clock]

RecSet(k, value) ==
    hist' = Kept(Written([hist EXCEPT !.obs = SetSeen(Seen(k))], k, value))

RecPopulateSet(k, value) ==
    hist' = Kept(Written([hist EXCEPT !.obs = SetSeen(@)], k, value))

\* The time evictExpired reads, if it reads it.
RecSweep(p) ==
    hist' = Kept(IF task'[p].pc = "sweep"
                 THEN [hist EXCEPT !.obs.now = task'[p].now]
                 ELSE hist)

RecObs(k) == hist' = Kept([hist EXCEPT !.obs = Seen(k)])

RecHit(p) ==
    hist' = Kept(IF task'[p].pc = "hitReturn"
                 THEN [hist EXCEPT !.touched = Touch(@, task[p].key)]
                 ELSE hist)

RecEvicted(p) ==
    hist' = Kept([hist EXCEPT !.obs.evicted = lookup'[task[p].key] = Nil])

RecLoaded == hist' = Kept([hist EXCEPT !.obs.loaded = TRUE])

RecNone == hist' = Kept(hist)

\* BuildSpec: a Cache built by New from any short list of WithSize options,
\* or a Cache declared without New, and one task that calls Len, Get and
\* Set. The history keeps the options and whether New built the Cache.
MaxOptions == 2

OptionLists ==
    UNION {[1..m -> -1..MaxSize] : m \in 0..MaxOptions}

BuildInit ==
    \/ \E opts \in OptionLists :
          Started(New(Options(ZeroCache.n, opts), ZeroCache.ttl,
                      ZeroCache.getter, ZeroCache.onEvict),
                  [NoHist EXCEPT !.options = opts])
    \/ Started(ZeroCache, [NoHist EXCEPT !.built = FALSE])

BuildNext ==
    \/ LenCall(Caller) /\ UNCHANGED hist
    \/ \E k \in Keys : GetCall(Caller, k) /\ UNCHANGED hist
    \/ GetHit(Caller) /\ UNCHANGED hist
    \/ GetHitReturn(Caller) /\ UNCHANGED hist
    \/ PopulateByGetter(Caller) /\ UNCHANGED hist
    \/ \E k \in Keys, v \in Vals : SetCall(Caller, k, v) /\ UNCHANGED hist
    \/ EvictExpired(Caller) /\ UNCHANGED hist

BuildSpec == BuildInit /\ [][BuildNext]_vars

\* RoomSpec: one task calls Get and Set on a cache with room for every key,
\* with or without a TTL and a callback, and no getter.
RoomInit == InitWith({NKeys}, TTLs, {FALSE}, BOOLEAN)

RoomNext ==
    \/ \E k \in Keys : GetCall(Caller, k) /\ RecObs(k)
    \/ GetHit(Caller) /\ RecHit(Caller)
    \/ GetHitReturn(Caller) /\ RecNone
    \/ GetExpired(Caller) /\ RecEvicted(Caller)
    \/ PopulateByGetter(Caller) /\ RecNone
    \/ \E k \in Keys, v \in Vals : SetCall(Caller, k, v) /\ RecSet(k, v)
    \/ Tick /\ RecNone

RoomSpec == RoomInit /\ [][RoomNext]_vars

\* AnyTTLSpec: one task calls Get and Set on a cache without a getter whose
\* TTL is any duration WithTTL takes: negative, zero or positive.
AnyTTLs == -1..MaxTTL

AnyTTLInit == InitWith(Sizes, AnyTTLs, {FALSE}, BOOLEAN)

AnyTTLNext ==
    \/ \E k \in Keys : GetCall(Caller, k) /\ RecObs(k)
    \/ GetHit(Caller) /\ RecHit(Caller)
    \/ GetHitReturn(Caller) /\ RecNone
    \/ GetExpired(Caller) /\ RecEvicted(Caller)
    \/ PopulateByGetter(Caller) /\ RecNone
    \/ \E k \in Keys, v \in Vals : SetCall(Caller, k, v) /\ RecSet(k, v)
    \/ EvictExpired(Caller) /\ RecSweep(Caller)
    \/ Sweep(Caller) /\ RecNone
    \/ Tick /\ RecNone

AnyTTLSpec == AnyTTLInit /\ [][AnyTTLNext]_vars

SeqInit == InitWith(Sizes, TTLs, BOOLEAN, BOOLEAN)

SeqNext ==
    \/ LenCall(Caller) /\ RecNone
    \/ \E k \in Keys : GetCall(Caller, k) /\ RecObs(k)
    \/ GetHit(Caller) /\ RecHit(Caller)
    \/ GetHitReturn(Caller) /\ RecNone
    \/ GetExpired(Caller) /\ RecEvicted(Caller)
    \/ PopulateByGetter(Caller) /\ RecNone
    \/ Recv(Caller) /\ RecNone
    \/ PopulateSet(Caller) /\ RecPopulateSet(task[Caller].key, task[Caller].val)
    \/ \E k \in Keys, v \in Vals : SetCall(Caller, k, v) /\ RecSet(k, v)
    \/ EvictExpired(Caller) /\ RecSweep(Caller)
    \/ Sweep(Caller) /\ RecNone
    \/ \E k \in Keys : ExecGetterCall(k) /\ RecLoaded
    \/ \E k \in Keys : ExecGetterSend(k) /\ RecNone
    \/ Tick /\ RecNone

SeqSpec == SeqInit /\ [][SeqNext]_vars

\* ------------------------------------------------------------------ claims
\* The keys of the list's elements, front to back.
ListKeys == [i \in 1..Len(Elements(cache)) |-> cache.Value[Elements(cache)[i]].key]

\* The index and the list hold the same keys, each key indexed to the element
\* that holds it, and the list's length is the number of its elements.
IndexMatchesList ==
    /\ ListLen(cache) = Len(Elements(cache))
    /\ \A i \in 1..Len(Elements(cache)) : lookup[ListKeys[i]] = Elements(cache)[i]
    /\ \A k \in Keys : lookup[k] # Nil =>
          \E i \in 1..Len(Elements(cache)) : Elements(cache)[i] = lookup[k]

\* C1: callers that only Get keys that are absent, with a getter that
\* succeeds and nothing ever evicted, run the getter at most once per key.
C1_SingleFlight == \A k \in Keys : hist.loaderCalls[k] <= 1

Registered(p) ==
    \E i \in 1..Len(pending[task[p].key]) : pending[task[p].key][i] = p

\* C2 (state part): a registered channel is open, empty and registered once
\* by a task waiting on it; a waiting task is either still registered or
\* holds exactly one result; no send ever hit a closed or full channel and
\* one goroutine at most runs per key.
C2_Receivers ==
    /\ \A k \in Keys : \A i \in 1..Len(pending[k]) :
          LET p == pending[k][i] IN
          /\ task[p].pc = "recv" /\ task[p].key = k
          /\ chan[p].st = "open" /\ chan[p].buf = <<>>
          /\ \A j \in 1..Len(pending[k]) : pending[k][j] = p => j = i
    /\ \A p \in Procs : task[p].pc = "recv" =>
          /\ chan[p].st = "open"
          /\ IF Registered(p) THEN chan[p].buf = <<>> ELSE Len(chan[p].buf) = 1
    /\ \A k \in Keys : gor[k].st \in {"idle", "running", "done"} /\ gor[k].n <= 1

\* C2 (step part): the step that ends a getter's execution leaves its one
\* result in the channel of every task registered for the key and empties
\* the key's registry entry.
C2_Broadcast ==
    \A k \in Keys : (gor[k].st = "done" /\ gor'[k].st # "done") =>
        /\ pending'[k] = <<>>
        /\ \A i \in 1..Len(pending[k]) :
              chan'[pending[k][i]].buf = <<[value |-> gor[k].value, err |-> gor[k].err]>>

\* C2: fan-out of a getter's result to every registered caller.
C2_FanOut == []C2_Receivers /\ [][C2_Broadcast]_vars

C2_Witness ==
    \E p \in Procs, q \in Procs :
        /\ p # q
        /\ task[p].pc = "recv" /\ task[q].pc = "recv"
        /\ task[p].key = task[q].key
        /\ pending[task[p].key] = <<>>
        /\ Len(chan[p].buf) = 1 /\ chan[p].buf = chan[q].buf

\* C3: no call faults, and while no task is inside a critical section the
\* list and the index agree.
C3_NoFault ==
    /\ \A p \in Procs : task[p].pc # "panicked"
    /\ mu = 0 => IndexMatchesList

\* C4: the step of Get's hit path that calls MoveToFront is taken only with
\* a handle that is still linked and still the element indexed by the key.
C4_Revalidated ==
    [][\A p \in Procs :
         (task[p].pc = "hit" /\ task'[p].pc \in {"hitReturn", "panicked"}) =>
            /\ task[p].el \in Linked(cache)
            /\ lookup[task[p].key] = task[p].el]_vars

\* C5: no task ever calls the list's Remove on an element that was removed.
C5_RemovedOnce == \A p \in Procs : task[p].fault # "Remove"

\* C6: when a Set returns (a caller's, or the one populateByGetter makes),
\* with nil or with an error, the list holds at most Size elements.
C6_Capacity == ret.set => ListLen(cache) <= Size

C6_Witness ==
    /\ ret.set /\ ret.op = "Set" /\ ret.err = "evictPanic"
    /\ ListLen(cache) = Size

\* C7: every value Len returns is at most Size.
C7_LenBound == ret.op = "Len" => ret.val <= Size

Min(a, b) == IF a <= b THEN a ELSE b

\* No call is in progress.
Sequential == \A p \in Procs : task[p].pc = "idle"

Range(seq) == {seq[i] : i \in 1..Len(seq)}

\* The keys touched most recently, as many as the cache can hold.
Recent == SubSeq(hist.touched, 1, Min(Size, Len(hist.touched)))

\* C8: with TTL disabled and no call in progress, the list holds exactly the
\* min(Size, number of keys set) most recently touched keys, most recent
\* first, the index holds the same keys, and without a getter a Get returns
\* NotFound exactly for a key outside them.
C8_StrictLRU ==
    (ttl = 0 /\ Sequential) =>
        /\ ListKeys = Recent
        /\ \A k \in Keys : lookup[k] # Nil <=> k \in Range(Recent)
        /\ (ret.op = "Get" /\ ~getter) =>
              /\ ret.err \in {ErrNil, "ErrNotFound"}
              /\ ret.err = "ErrNotFound" <=> ret.key \notin Range(Recent)

C8_Witness ==
    /\ ttl = 0 /\ Sequential /\ ~getter /\ Size = 2
    /\ hist.touched = <<3, 1, 2>>
    /\ ret.op = "Get" /\ ret.key = 2 /\ ret.err = "ErrNotFound"
    /\ ListKeys = <<3, 1>>

\* C9: with TTL disabled, while the keys set are at most Size, every key set
\* is cached with the value of its last Set, Len is the number of keys set,
\* and a Get of a key set returns that value and no error.
C9_WithinCapacity ==
    (ttl = 0 /\ Sequential /\ Len(hist.touched) <= Size) =>
        /\ ListLen(cache) = Len(hist.touched)
        /\ \A k \in Range(hist.touched) :
              /\ lookup[k] # Nil
              /\ hist.lastSet[k] \in Vals
              /\ cache.Value[lookup[k]].val = hist.lastSet[k]
        /\ (ret.op = "Get" /\ ret.key \in Range(hist.touched)) =>
              ret.err = ErrNil /\ ret.val = hist.lastSet[ret.key]
        /\ ret.op = "Len" => ret.val = Len(hist.touched)

\* A Set that found its key cached has returned; the cache is as full as
\* the keys set.
C9_Witness ==
    /\ ttl = 0 /\ Sequential /\ Len(hist.touched) = Size /\ Size = 2
    /\ ret.op = "Set" /\ ret.err = ErrNil /\ hist.obs.found
    /\ hist.obs.val # ret.val
    /\ cache.Value[lookup[ret.key]].val = ret.val
    /\ ListLen(cache) = 2

EvictErrs == {"evictErr", "evictPanic"}

\* C10 as stated: a Get that finds its entry at or after t0 + d evicts it and
\* returns NotFound (no getter) or has the getter invoked, whatever the
\* eviction's callback does.
C10_AsStated ==
    (ret.op = "Get" /\ ttl > 0 /\ hist.obs.found /\ hist.obs.t >= hist.obs.exp) =>
        /\ hist.obs.evicted
        /\ \/ ~getter /\ ret.err = "ErrNotFound" /\ ret.val = zeroValue
           \/ getter /\ hist.obs.loaded

\* C10: with TTL d > 0, a Get that found the entry written by the last Set
\* of its key at t0 returns the entry's value if it read the clock before
\* t0 + d; from t0 + d on it evicts the entry and then, if the eviction's
\* callback failed, returns that failure without consulting the getter, and
\* otherwise returns NotFound (no getter) or has the getter invoked.
C10_Expiry ==
    (ret.op = "Get" /\ ttl > 0 /\ hist.obs.found) =>
        LET o == hist.obs IN
        /\ o.exp = o.t0 + ttl /\ o.val = o.v0
        /\ o.t < o.exp => (ret.err = ErrNil /\ ret.val = o.val /\ ~o.evicted)
        /\ o.t >= o.exp =>
              /\ o.evicted
              /\ \/ ret.err \in EvictErrs /\ ~o.loaded /\ onEvict
                 \/ ~getter /\ ret.err = "ErrNotFound" /\ ret.val = zeroValue
                 \/ getter /\ o.loaded

C10_Witness ==
    /\ ret.op = "Get" /\ ttl > 0 /\ hist.obs.found
    /\ hist.obs.t = hist.obs.exp
    /\ hist.obs.evicted /\ getter /\ hist.obs.loaded /\ ret.err = ErrNil

\* The keys that leave the index in a step.
Gone == {k \in Keys : lookup[k] # Nil /\ lookup'[k] = Nil}

\* C11: with TTL 0, whatever the time, a step takes a key out of the cache
\* only as the capacity eviction of a Set that has inserted a new key into a
\* full cache; it takes out that one key, the least recently touched.
C11_OnlyCapacity ==
    [][ttl = 0 =>
         \/ Gone = {} /\ Range(ListKeys) \subseteq Range(ListKeys')
         \/ \E p \in Procs :
               /\ mu = p /\ task[p].pc = "evictExpired" /\ task[p].op \in {"Set", "Get"}
               /\ ListLen(cache) = Size + 1
               /\ lookup[task[p].key] = Front(cache)
               /\ Gone = {cache.Value[Back(cache)].key}
               /\ Gone = {hist.touched[Size + 1]}
               /\ ListKeys' = SubSeq(ListKeys, 1, Size)]_vars

\* Time has passed since a key still cached was set, and a Set has just
\* evicted the least recently touched key.
C11_Witness ==
    /\ ttl = 0 /\ clock = MaxTime
    /\ ret.op = "Set" /\ ret.set
    /\ Len(hist.touched) > Size
    /\ lookup[hist.touched[Size + 1]] = Nil
    /\ \E k \in Keys : lookup[k] # Nil /\ hist.lastSetTime[k] < clock

\* C12: a Get that finds its key absent changes nothing as it looks the key
\* up, and on a cache without a getter its next step returns the zero value
\* and ErrNotFound, again with the list (and so the recency order), the
\* index and the pending registry unchanged.
C12_NotFound ==
    [][\A p \in Procs :
         /\ (task[p].pc = "idle" /\ task'[p].pc = "populateByGetter") =>
               /\ lookup[task'[p].key] = Nil
               /\ UNCHANGED <<cache, lookup, pending, mu>>
         /\ (~getter /\ task[p].pc = "populateByGetter" /\ task'[p] # task[p]) =>
               /\ ret' = [p |-> p, op |-> "Get", key |-> task[p].key,
                          val |-> zeroValue, err |-> "ErrNotFound", set |-> FALSE]
               /\ task'[p] = IdleTask
               /\ called' = NoCall
               /\ UNCHANGED <<cache, lookup, pending, mu, chan>>]_vars

\* A Get of a key that was never set has returned NotFound from a cache
\* that is full.
C12_Witness ==
    /\ ~getter /\ ret.op = "Get" /\ ret.err = "ErrNotFound" /\ ret.val = zeroValue
    /\ ret.key \notin Range(hist.touched)
    /\ ListLen(cache) = Size /\ Size = MaxSize
    /\ ListKeys = hist.touched
    /\ \A k \in Keys : pending[k] = <<>>

\* What a getter that panicked sends to its callers.
PanicMsg == [value |-> zeroValue, err |-> "getterPanic"]

\* C13 (state part): the goroutine of a key never dies of the getter's
\* fault and never blocks on a send.
C13_Contained == \A k \in Keys : gor[k].st \in {"idle", "running", "done"}

\* C13 (step part): the goroutine of a getter that panicked sends the error
\* to every registered caller, clears the key's registry entry and leaves
\* the lock free and the cache as it was; a caller that holds that error
\* returns it with the zero value and touches nothing but its channel.
C13_Steps ==
    /\ \A k \in Keys :
          (gor[k].st = "done" /\ gor[k].err = "getterPanic" /\ gor'[k] # gor[k]) =>
             /\ gor'[k].st = "idle"
             /\ pending'[k] = <<>>
             /\ mu' = 0
             /\ \A i \in 1..Len(pending[k]) : chan'[pending[k][i]].buf = <<PanicMsg>>
             /\ UNCHANGED <<cache, lookup, task>>
    /\ \A p \in Procs :
          (task[p].pc = "recv" /\ chan[p].buf = <<PanicMsg>> /\ task'[p] # task[p]) =>
             /\ ret' = [p |-> p, op |-> "Get", key |-> task[p].key,
                        val |-> zeroValue, err |-> "getterPanic", set |-> FALSE]
             /\ task'[p] = IdleTask
             /\ chan'[p].st = "closed"
             /\ UNCHANGED <<cache, lookup, pending, mu>>

\* C13: a panic of the getter is contained.
C13_GetterPanic == []C13_Contained /\ [][C13_Steps]_vars

\* One of two callers that waited on a getter that panicked has returned
\* the error; the other holds it; the lock is free.
C13_Witness ==
    /\ ret.op = "Get" /\ ret.err = "getterPanic" /\ ret.val = zeroValue
    /\ mu = 0 /\ pending[ret.key] = <<>>
    /\ \E q \in Procs : /\ q # ret.p
                        /\ task[q].pc = "recv" /\ task[q].key = ret.key
                        /\ chan[q].buf = <<PanicMsg>>

\* C14: when the callback of the eviction Get makes of its expired entry
\* fails, that step ends the Get: it returns the zero value and the
\* callback's failure, the callback was called once, the entry is gone, and
\* neither the getter nor the lock is engaged.
C14_EvictFailure ==
    [][\A p \in Procs :
         (task[p].pc = "expired" /\ task'[p] # task[p] /\ called'.err # ErrNil) =>
            /\ called'.err \in EvictErrs
            /\ ret' = [p |-> p, op |-> "Get", key |-> task[p].key,
                       val |-> zeroValue, err |-> called'.err, set |-> FALSE]
            /\ task'[p] = IdleTask
            /\ called'.n = 1 /\ called'.val = cache.Value[task[p].el].val
            /\ task[p].el \notin Linked(cache')
            /\ lookup'[cache.Value[task[p].el].key] = Nil
            /\ mu' = 0
            /\ UNCHANGED <<pending, gor, chan>>]_vars

\* A Get of an expired key has returned the panic of the callback; a getter
\* is set and was not run.
C14_Witness ==
    /\ ret.op = "Get" /\ ret.err = "evictPanic" /\ ret.val = zeroValue /\ ~ret.set
    /\ called.n = 1 /\ called.err = "evictPanic" /\ called.key = ret.key
    /\ lookup[ret.key] = Nil
    /\ getter /\ \A k \in Keys : gor[k].st = "idle" /\ pending[k] = <<>>

\* C15 (step part): in the step that calls the callback, whatever the
\* callback does, the entry it is called for leaves the list and the index;
\* a Get that follows a failed callback's eviction finds that key absent.
C15_Step ==
    /\ called'.n = 1 =>
          /\ lookup[called'.key] \in Linked(cache) \ Linked(cache')
          /\ lookup'[called'.key] = Nil
          /\ called'.key \notin Range(ListKeys')
          /\ ListLen(cache') = ListLen(cache) - 1
    /\ \A p \in Procs :
          (called.err # ErrNil /\ task[p].pc = "idle" /\ task'[p].op = "Get"
             /\ task'[p].key = called.key) => task'[p].pc = "populateByGetter"

\* C15 (state part): right after a callback was called, its entry is in
\* neither the list nor the index.
C15_Gone ==
    called.n = 1 => (lookup[called.key] = Nil /\ called.key \notin Range(ListKeys))

\* C15: an evicted entry is gone whatever its callback does.
C15_EvictRemoves == []C15_Gone /\ [][C15_Step]_vars

\* A Set's eviction of a key set earlier has failed in the callback; the
\* key is gone and the cache is at its size.
C15_Witness ==
    /\ called.n = 1 /\ called.err = "evictErr"
    /\ ret.op = "Set" /\ ret.err = "evictErr"
    /\ called.key \in Range(hist.touched) /\ lookup[called.key] = Nil
    /\ ListLen(cache) = Size /\ Size = MaxSize

\* The elements that leave the list in a step.
Left == Linked(cache) \ Linked(cache')

\* C16: a step takes at most one element out of the list; with a callback
\* set, the callback is called in a step once per element the step takes
\* out, with that element's value, and so not at all in a step that takes
\* none out, such as Set's update in place and Get's hit; without a callback
\* nothing is called.
C16_OncePerEviction ==
    [][LET left == Left IN
       /\ Cardinality(left) <= 1
       /\ called'.n = IF onEvict THEN Cardinality(left) ELSE 0
       /\ \A e \in left :
             onEvict => (called'.val = cache.Value[e].val
                         /\ called'.key = cache.Value[e].key)
       /\ left = {} => called' = NoCall
       /\ \A p \in Procs :
             (task[p].pc = "hit" /\ task'[p] # task[p]) => called' = NoCall
       /\ \A p \in Procs :
             (task[p].pc \in {"idle", "Set"} /\ ret'.set /\ ret'.p = p
                /\ lookup[ret'.key] # Nil) => called' = NoCall]_vars

\* A Get has just evicted its expired entry and the callback was called
\* with the value the entry held.
C16_Witness ==
    \E p \in Procs :
        /\ task[p].pc = "populateByGetter"
        /\ called.n = 1 /\ called.err = ErrNil
        /\ called.key = task[p].key /\ called.val = NVals
        /\ lookup[called.key] = Nil

AfterWrite ==
    [hist.obs.pre EXCEPT ![ret.key] = IF ttl > 0 THEN hist.obs.tset + ttl ELSE 0]

\* The keys of those entries that were expired when the sweep read the clock.
SweptKeys == {k \in Keys : AfterWrite[k] # -1 /\ ~(AfterWrite[k] > hist.obs.now)}

\* The keys in the index.
Cached == {k \in Keys : lookup[k] # Nil}

\* A Set has returned nil after inserting a new key into a cache that was at
\* its size, with a TTL set: its sweep ran, every callback succeeded.
SweptSet ==
    /\ ret.set /\ ret.err = ErrNil /\ ttl > 0
    /\ hist.obs.pre[ret.key] = -1
    /\ Cardinality({k \in Keys : hist.obs.pre[k] # -1}) = Size

\* C18: after such a Set, if some entry was expired at the time the sweep
\* read, exactly the entries expired at that time are gone; if none was,
\* exactly the least recently touched entry is gone; the entries that stay
\* keep their expirations and their order of recency.
C18_Sweep ==
    SweptSet =>
        /\ hist.obs.now >= hist.obs.tset
        /\ Cached = IF SweptKeys # {}
                    THEN {k \in Keys : AfterWrite[k] # -1} \ SweptKeys
                    ELSE {k \in Keys : AfterWrite[k] # -1} \ {hist.touched[Size + 1]}
        /\ \A k \in Cached : cache.Value[lookup[k]].exp = AfterWrite[k]
        /\ ListKeys = SelectSeq(hist.touched, LAMBDA k : k \in Cached)
        /\ ListLen(cache) = Cardinality(Cached)

\* A Set of key 3 found key 1 expired and key 2 not: key 1 alone is gone.
C18_Witness ==
    /\ SweptSet /\ ret.op = "Set" /\ ret.key = 3 /\ Size = 2
    /\ hist.obs.pre[1] <= hist.obs.now /\ hist.obs.pre[2] > hist.obs.now
    /\ ListKeys = <<3, 2>>

\* C19 (step part): the step of a Set's sweep in which the callback fails
\* ends the Set: it returns the callback's failure, releases the lock, and
\* has taken out the one entry the callback was called for.
C19_Step ==
    \A p \in Procs :
        (task[p].pc = "sweep" /\ mu = p /\ called'.err # ErrNil) =>
           /\ ret'.set /\ ret'.p = p /\ ret'.op = task[p].op
           /\ ret'.key = task[p].key /\ ret'.err = called'.err
           /\ task'[p] = IdleTask /\ mu' = 0
           /\ Cached \ {k \in Keys : lookup'[k] # Nil} = {called'.key}
           /\ ListLen(cache') = ListLen(cache) - 1

\* C19 (state part): when a Set whose sweep had expired entries to take has
\* returned a callback's failure, the failure is that of the last callback
\* called, the entries gone are expired ones (the failed callback's among
\* them), and every other entry is cached as it was, in the same order.
C19_State ==
    (ret.set /\ ret.err # ErrNil /\ hist.obs.now > 0 /\ SweptKeys # {}) =>
        LET gone == {k \in Keys : AfterWrite[k] # -1} \ Cached IN
        /\ ret.err \in EvictErrs /\ ret.err = called.err
        /\ called.key \in gone
        /\ gone \subseteq SweptKeys
        /\ \A k \in Cached : cache.Value[lookup[k]].exp = AfterWrite[k]
        /\ ListKeys = SelectSeq(hist.touched, LAMBDA k : k \in Cached)

\* C19: a callback's failure in the sweep ends the Set there.
C19_SweepAborts == []C19_State /\ [][C19_Step]_vars

\* A Set has returned the failure of the sweep's first callback; another
\* expired entry is still cached, and the cache is at its size.
C19_Witness ==
    /\ ret.set /\ ret.op = "Set" /\ ret.err = "evictErr" /\ hist.obs.now > 0
    /\ called.key \in SweptKeys
    /\ SweptKeys \cap Cached # {}
    /\ Cardinality({k \in Keys : AfterWrite[k] # -1} \ Cached) = 1
    /\ ListLen(cache) = Size /\ Size = MaxSize

\* C20: while no task holds the exclusive lock, the keys in the index are
\* the keys of the list's entries, each key is indexed to the element that
\* holds it, and the index has as many keys as the list has elements.
C20_IndexIsList ==
    mu = 0 =>
        /\ Cached = Range(ListKeys)
        /\ \A k \in Cached : /\ lookup[k] \in Linked(cache)
                             /\ cache.Value[lookup[k]].key = k
        /\ \A i \in 1..Len(ListKeys) : lookup[ListKeys[i]] = Elements(cache)[i]
        /\ Cardinality(Cached) = ListLen(cache)
        /\ ListLen(cache) = Len(Elements(cache))

\* The lock is free, the cache is at its size, and a Get still holds the
\* handle of an entry that was evicted and whose key was set again.
C20_Witness ==
    /\ mu = 0 /\ ListLen(cache) = Size
    /\ \E p \in Procs :
          /\ task[p].pc = "hit"
          /\ task[p].el \notin Linked(cache)
          /\ lookup[task[p].key] \in Linked(cache)

\* C21 (state part): while the getter runs for SlowKey its goroutine does
\* not hold the lock, and an idle task can make its Set of any key, SlowKey
\* included, at once.
C21_Unlocked ==
    gor[SlowKey].st = "running" =>
        /\ mu # G(SlowKey)
        /\ \A p \in Procs, k \in ConcKeys, v \in Vals :
              task[p].pc = "idle" => ENABLED (SetCall(p, k, v) /\ UNCHANGED hist)

\* C21: with the getter of SlowKey never returning, every call on another
\* key that a task has begun comes to its return.
C21_NotBlocked ==
    /\ []C21_Unlocked
    /\ \A p \in Procs :
          (task[p].pc # "idle" /\ task[p].key # SlowKey) ~> (task[p].pc = "idle")

\* The getter of SlowKey is running, a task waits for it, and another
\* task's Get of another key has had its own getter run and has returned.
C21_Witness ==
    /\ gor[SlowKey].st = "running"
    /\ \E p \in Procs : task[p].pc = "recv" /\ task[p].key = SlowKey
    /\ ret.op = "Get" /\ ret.key # SlowKey /\ ret.set /\ ret.err = ErrNil
    /\ lookup[ret.key] # Nil

\* C22: with one task setting each key to itself in order and another
\* getting each key in order, no task faults, every Set returns nil, a Get
\* that succeeds for key i returns i, a Get fails only without a getter and
\* then with ErrNotFound, and once both tasks have finished Len() is Size().
C22_GetAndSet ==
    /\ \A p \in Procs : task[p].pc # "panicked"
    /\ ret.op = "Set" => ret.err = ErrNil
    /\ ret.op = "Get" /\ ret.err = ErrNil => ret.val = ret.key
    /\ ret.op = "Get" /\ ret.err # ErrNil => ~getter /\ ret.err = "ErrNotFound"
    /\ Finished(Setter) /\ Finished(Getter) => ListLen(cache) = Size

\* Both tasks have finished on a cache smaller than the number of keys, the
\* last step being the return of a Get that succeeded.
C22_Witness ==
    /\ Finished(Setter) /\ Finished(Getter)
    /\ Size < NKeys
    /\ ret.op = "Get" /\ ret.err = ErrNil /\ ret.val = ret.key /\ ret.key = NKeys
    /\ ListLen(cache) = Size

\* The size the last WithSize option gave, 0 with no such option.
LastSize == IF hist.options = <<>> THEN 0 ELSE hist.options[Len(hist.options)]

\* C23: a cache built by New starts empty; its Size() is the last WithSize
\* option's n if that is positive and 1024 otherwise, or with no WithSize
\* option; Size() never changes.
C23_Size ==
    /\ hist.built => ListLen(cache) = 0
    /\ [](hist.built => Size = IF LastSize > 0 THEN LastSize ELSE 1024)
    /\ [][Size' = Size]_vars

\* New was given two WithSize options, a positive size and then one that is
\* not, and the cache holds more entries than the first size allows.
C23_Witness ==
    /\ hist.built
    /\ Len(hist.options) = MaxOptions
    /\ hist.options[1] > 0 /\ LastSize <= 0
    /\ ListLen(cache) > hist.options[1]
    /\ ret.op = "Set" /\ ret.err = ErrNil

\* C24: on a Cache that New did not build Size() is 1024 and no call of
\* Len, Set or Get faults.
C24_ZeroValue ==
    ~hist.built =>
        /\ Size = 1024
        /\ \A p \in Procs : task[p].pc # "panicked"

\* The elements of L in order, el left out.
Others(L, el) == SelectSeq(Elements(L), LAMBDA e : e # el)

\* Every element but el has in the next state the value, key and
\* expiration it has now, and the same place among the others.
OthersKept(el) ==
    /\ Others(cache', el) = Others(cache, el)
    /\ \A e \in Range(Others(cache, el)) : cache'.Value[e] = cache.Value[e]

\* C25: a Set of a key that is in the index writes the value and the
\* expiration now + TTL (none without a TTL) into the key's node, which
\* becomes the front; it returns nil, calls no callback, and leaves the
\* index, Len() and every other entry and their order as they were.
C25_SetInPlace ==
    [][\A k \in Keys, v \in Vals :
          SetCall(Caller, k, v) /\ lookup[k] # Nil =>
              /\ ret'.op = "Set" /\ ret'.key = k /\ ret'.err = ErrNil
              /\ task'[Caller].pc = "idle"
              /\ lookup' = lookup
              /\ cache'.Value[lookup[k]] =
                     [key |-> k, val |-> v,
                      exp |-> IF ttl > 0 THEN clock + ttl ELSE 0]
              /\ Front(cache') = lookup[k]
              /\ ListLen(cache') = ListLen(cache)
              /\ OthersKept(lookup[k])
              /\ called' = NoCall]_vars

\* A Set has returned nil for a key whose entry had expired and was not at
\* the front, in a cache with a callback that holds every key.
C25_Witness ==
    /\ ret.op = "Set" /\ ret.err = ErrNil
    /\ onEvict
    /\ hist.obs.found /\ hist.obs.exp # 0 /\ hist.obs.exp <= hist.obs.t
    /\ ListLen(cache) = NKeys
    /\ hist.obs.val # ret.val
    /\ cache.Value[Front(cache)].key = ret.key
    /\ cache.Value[Front(cache)].exp > clock

\* C26: a Get that finds its key unexpired changes nothing but the order:
\* the node becomes the front, and the index, Len(), every value and every
\* expiration, the node's own included, stay; it returns the node's value
\* and no error.
C26_GetHit ==
    [][/\ \A k \in Keys :
            (/\ GetCall(Caller, k)
             /\ lookup[k] # Nil
             /\ Unexpired(cache.Value[lookup[k]].exp, clock)) =>
                /\ task'[Caller].pc = "hit"
                /\ cache' = cache /\ lookup' = lookup /\ called' = NoCall
       /\ GetHit(Caller) =>
            /\ task'[Caller].pc = "hitReturn"
            /\ Front(cache') = task[Caller].el
            /\ cache'.Value = cache.Value
            /\ ListLen(cache') = ListLen(cache)
            /\ OthersKept(task[Caller].el)
            /\ lookup' = lookup /\ called' = NoCall
       /\ GetHitReturn(Caller) =>
            /\ ret'.op = "Get" /\ ret'.key = task[Caller].key
            /\ ret'.err = ErrNil
            /\ ret'.val = cache.Value[lookup[ret'.key]].val
            /\ cache' = cache /\ lookup' = lookup /\ called' = NoCall]_vars

\* A Get has returned the value of an entry of a list that holds every key,
\* at a time after the entry's Set: the entry is at the front, its
\* expiration still the one its Set gave it.
C26_Witness ==
    /\ ret.op = "Get" /\ ret.err = ErrNil /\ ~ret.set
    /\ ttl > 0
    /\ ListLen(cache) = NKeys
    /\ hist.obs.found
    /\ cache.Value[Front(cache)].key = ret.key
    /\ cache.Value[Front(cache)].exp = hist.obs.exp
    /\ cache.Value[Front(cache)].exp = hist.lastSetTime[ret.key] + ttl
    /\ hist.lastSetTime[ret.key] < clock

\* C27: with a getter whose every execution ends, a Get that has missed
\* returns; a key with registered callers has its getter's goroutine under
\* way; and when no call is in progress the registry is empty.
C27_LoadsReturn ==
    /\ [](\A k \in Keys : pending[k] # <<>> => gor[k].st # "idle")
    /\ [](Sequential => \A k \in Keys : pending[k] = <<>>)
    /\ \A p \in Procs :
          (task[p].pc = "populateByGetter") ~> (task[p].pc = "idle")

\* The list as its users see it: the elements in order and their values.
LiveList(L) == <<Elements(L), [e \in Range(Elements(L)) |-> L.Value[e]], ListLen(L)>>

\* C28: a step that changes the list, the index or the registry or calls
\* the callback is taken inside its own critical section or by the task
\* that holds the lock; and while a task's callback runs after the removal
\* of its entry, no other call changes the list or the index or returns
\* what it read of them.
C28_UnderLock ==
    [][/\ (\/ LiveList(cache') # LiveList(cache)
           \/ lookup' # lookup
           \/ pending' # pending
           \/ called'.n # 0) =>
              (mu \in Procs => \A q \in Procs \ {mu} : task'[q] = task[q])
       /\ \A p \in Procs :
             task[p].pc = "onEvict" /\ task'[p] = task[p] =>
                 /\ LiveList(cache') = LiveList(cache)
                 /\ lookup' = lookup
                 /\ ret'.op # "Len"]_vars

\* C29: the entry Get's expiry path removes is expired at its removal, and
\* so an entry a Set has written since Get looked is not removed before its
\* expiration.
C29_ExpiredAtRemoval ==
    [][\A p \in Procs :
          GetExpired(p) /\ lookup'[task[p].key] # lookup[task[p].key] =>
              ~Unexpired(cache.Value[task[p].el].exp, clock)]_vars

\* C30: when Set has returned nil its key is in the index with Set's value,
\* at the front of the list.
C30_SetStays ==
    ret.op = "Set" /\ ret.err = ErrNil =>
        /\ lookup[ret.key] # Nil
        /\ cache.Value[lookup[ret.key]].val = ret.val
        /\ Front(cache) = lookup[ret.key]

\* C31: an entry the sweep of Set evicts is one that Get's test at the
\* sweep's instant takes for expired; an entry without an expiration is
\* never swept.
C31_SweepAgreesWithGet ==
    [][Sweep(Caller) /\ Expired(task[Caller].now) # {} =>
          \A k \in Keys :
              lookup[k] # Nil /\ lookup'[k] = Nil =>
                  /\ ~Unexpired(cache.Value[lookup[k]].exp, task[Caller].now)
                  /\ cache.Value[lookup[k]].exp # 0]_vars

\* The failures of a getter.
GetterErrs == {"getterErr", "getterPanic"}

\* C32 (state part): when Get returns a getter's failure its key is not in
\* the cache, no caller is registered for it and no goroutine runs for it.
C32_NotCached ==
    ret.op = "Get" /\ ret.err \in GetterErrs =>
        /\ lookup[ret.key] = Nil
        /\ \A e \in Range(Elements(cache)) : cache.Value[e].key # ret.key
        /\ pending[ret.key] = <<>>
        /\ gor[ret.key].st = "idle"

\* C32 (step part): no step of the getter's goroutine changes the list or
\* the index; the caller that holds a failure returns it and changes
\* neither; and a Get whose key is absent, on a cache with a getter, has
\* the getter run.
C32_Steps ==
    /\ gor' # gor => LiveList(cache') = LiveList(cache) /\ lookup' = lookup
    /\ (/\ task[Caller].pc = "recv"
        /\ chan[Caller].buf # <<>>
        /\ Head(chan[Caller].buf).err # ErrNil
        /\ task'[Caller] # task[Caller]) =>
           /\ ret'.op = "Get" /\ ret'.err = Head(chan[Caller].buf).err
           /\ ret'.val = zeroValue
           /\ LiveList(cache') = LiveList(cache) /\ lookup' = lookup
    /\ \A k \in Keys :
          GetCall(Caller, k) /\ lookup[k] = Nil =>
              task'[Caller].pc = "populateByGetter"
    /\ (task[Caller].pc = "populateByGetter" /\ getter
          /\ task'[Caller] # task[Caller]) =>
           /\ gor'[task[Caller].key].st = "running"
           /\ gor'[task[Caller].key].n = gor[task[Caller].key].n + 1

\* C32: a failed load stores nothing and is not remembered.
C32_FailedLoad == []C32_NotCached /\ [][C32_Steps]_vars

\* A Get has returned the getter's failure on a full cache.
C32_Witness ==
    /\ ret.op = "Get" /\ ret.err \in GetterErrs
    /\ hist.obs.loaded
    /\ ListLen(cache) = MaxSize /\ Size = MaxSize
    /\ lookup[ret.key] = Nil

\* C33: when Get returns an error its key is not in the cache.
C33_ErrorLeavesAbsent ==
    ret.op = "Get" /\ ret.err # ErrNil => lookup[ret.key] = Nil

\* C34: when every call has returned, a key whose last Set was made while
\* a load of the key was under way holds that Set's value.
C34_WriteWins ==
    Sequential =>
        \A k \in Keys :
            hist.during[k] # zeroValue =>
                /\ lookup[k] # Nil
                /\ cache.Value[lookup[k]].val = hist.during[k]

\* C35: the task whose Get or Set has just returned does not hold the
\* lock, whatever the call returned, and no task between two calls does.
C35_ReturnsUnlocked ==
    /\ ret.op \in {"Get", "Set"} => mu # ret.p
    /\ \A p \in Procs : task[p].pc = "idle" => mu # p

\* A Get has returned the fault of the callback, and the lock is free.
C35_Witness ==
    /\ ret.op = "Get" /\ ret.err = "evictPanic"
    /\ mu = 0
    /\ \E q \in Procs : q # ret.p /\ task[q].pc = "populateByGetter"

\* The elements reached from the root by prev, back to front.
RECURSIVE WalkBack(_, _, _)
WalkBack(L, e, fuel) ==
    IF e = Root \/ e = Nil \/ fuel = 0 THEN <<>>
    ELSE <<e>> \o WalkBack(L, L.prev[e], fuel - 1)

Reverse(seq) == [i \in 1..Len(seq) |-> seq[Len(seq) + 1 - i]]

\* C36: the walk from the front by next and the walk from the back by prev
\* visit the same elements in mirrored order, the links of every element
\* and of the root come back to it, and Len() is the number of elements,
\* none of them visited twice.
C36_WellFormed ==
    LET fwd == Elements(cache)
        bwd == WalkBack(cache, cache.prev[Root], MaxNodes + 1)
    IN  /\ bwd = Reverse(fwd)
        /\ \A e \in Range(fwd) \cup {Root} :
              /\ cache.prev[cache.next[e]] = e
              /\ cache.next[cache.prev[e]] = e
        /\ ListLen(cache) = Len(fwd)
        /\ Cardinality(Range(fwd)) = Len(fwd)
        /\ Range(fwd) = Handles

\* A full list of which an element has just been moved before another,
\* after an element was removed and its address used again.
C36_Witness ==
    /\ ret.op = "MoveBefore"
    /\ ListLen(cache) = MaxListLen
    /\ Elements(cache)[1] > Elements(cache)[2]
    /\ Back(cache) # MaxListLen

\* C37: Front() and Back() return nil exactly when the list is empty and
\* never the root element; Next() of the last element and Prev() of the
\* first element return nil; and no call returns the root element.
C37_RootNotHandedOut ==
    /\ (Front(cache) = Nil) <=> (ListLen(cache) = 0)
    /\ (Back(cache) = Nil) <=> (ListLen(cache) = 0)
    /\ Front(cache) # Root /\ Back(cache) # Root
    /\ \A e \in Handles :
          /\ e = Back(cache) => ElementNext(cache, e) = Nil
          /\ e = Front(cache) => ElementPrev(cache, e) = Nil
          /\ ElementNext(cache, e) # Root
          /\ ElementPrev(cache, e) # Root
    /\ ret.op \in {"Front", "Back", "Next", "Prev"} => ret.key # Root

\* The part of C37 about Front() and Back() alone.
C37_FrontBack ==
    /\ (Front(cache) = Nil) <=> (ListLen(cache) = 0)
    /\ (Back(cache) = Nil) <=> (ListLen(cache) = 0)
    /\ Front(cache) # Root /\ Back(cache) # Root
    /\ ret.op \in {"Front", "Back"} => ret.key # Root

\* seq with h put right after the element t (at the front when t is Root).
PutAfter(seq, h, t) ==
    IF t = Root THEN <<h>> \o seq
    ELSE LET i == CHOOSE j \in 1..Len(seq) : seq[j] = t
         IN  SubSeq(seq, 1, i) \o <<h>> \o SubSeq(seq, i + 1, Len(seq))

\* What a move of h to right after t has to leave: nothing changes when h
\* is t or already follows t, else the other elements in their order with
\* h right after t.
Moved(L, h, t) ==
    IF h = t \/ L.prev[h] = t THEN Elements(L)
    ELSE PutAfter(Others(L, h), h, t)

\* The move of cache to cache' changed no count and no value, and the list
\* holds the elements of seq in that order, linked both ways.
MovedTo(seq) ==
    /\ Elements(cache') = seq
    /\ WalkBack(cache', cache'.prev[Root], MaxNodes + 1) = Reverse(seq)
    /\ ListLen(cache') = ListLen(cache)
    /\ cache'.Value = cache.Value
    /\ (seq = Elements(cache) => cache' = cache)

\* C38: MoveToFront makes the element the first, MoveToBack the last,
\* MoveAfter puts it right after the other element and MoveBefore right
\* before it; a move of an element to where it is, or relative to itself,
\* changes nothing; no move changes Len(), and the other elements keep
\* their order. (ret holds the name of the call and the element moved.)
C38_Moves ==
    [][LET h == ret'.key IN
       /\ ret'.op = "MoveToFront" /\ ListMoveToFront(h) =>
             /\ MovedTo(Moved(cache, h, Root))
             /\ Front(cache') = h
       /\ ret'.op = "MoveToBack" /\ ListMoveToBack(h) =>
             /\ MovedTo(Moved(cache, h, Back(cache)))
             /\ Back(cache') = h
       /\ ret'.op = "MoveAfter" =>
          \A t \in Nodes : ListMoveAfter(h, t) =>
             /\ MovedTo(Moved(cache, h, t))
             /\ h # t => cache'.prev[h] = t
       /\ ret'.op = "MoveBefore" =>
          \A t \in Nodes : ListMoveBefore(h, t) =>
             /\ MovedTo(Moved(cache, h, cache.prev[t]))
             /\ h # t => cache'.next[h] = t]_vars

\* MoveAfter has been called for element 1 of a full list, which now
\* follows element 3 in the middle of the list.
C38_Witness ==
    /\ ret.op = "MoveAfter" /\ ret.key = 1
    /\ ListLen(cache) = MaxListLen
    /\ Elements(cache) = <<3, 1, 2, 4>>

\* C39: Remove of an element of the list, wherever it stands, returns the
\* element's value, makes Len() one less, takes the element out of both
\* walks and clears its links, and leaves the other elements in their order
\* with their values; Remove of the only element leaves the list empty,
\* with Front() and Back() nil. (ret holds the element removed and the
\* value returned.)
C39_Remove ==
    [][LET h == ret'.key IN
       ret'.op = "Remove" /\ ListRemove(h) =>
          /\ ret'.val = cache.Value[h].val
          /\ ListLen(cache') = ListLen(cache) - 1
          /\ Elements(cache') = Others(cache, h)
          /\ WalkBack(cache', cache'.prev[Root], MaxNodes + 1)
                = Reverse(Others(cache, h))
          /\ cache'.next[h] = Nil /\ cache'.prev[h] = Nil
          /\ \A e \in Range(Others(cache, h)) : cache'.Value[e] = cache.Value[e]
          /\ ListLen(cache) = 1 =>
                /\ ListLen(cache') = 0
                /\ Front(cache') = Nil /\ Back(cache') = Nil]_vars

\* Element 2, which held the value 1, has been removed from a list that
\* still holds three elements around it.
C39_Witness ==
    /\ ret.op = "Remove" /\ ret.key = 2 /\ ret.val = 1
    /\ Elements(cache) = <<3, 1, 4>>

\* The only element of the list has been removed.
C39_Emptied ==
    /\ ret.op = "Remove"
    /\ ListLen(cache) = 0

\* The step from cache to cache' added the element e with the value v: e
\* was not in the list, the list now holds the elements of seq in that
\* order, linked both ways, Len() is one more, and the elements that were
\* in the list keep their order and their values.
Added(e, v, seq) ==
    /\ e \in Nodes \ Handles
    /\ Elements(cache') = seq
    /\ WalkBack(cache', cache'.prev[Root], MaxNodes + 1) = Reverse(seq)
    /\ ListLen(cache') = ListLen(cache) + 1
    /\ cache'.Value[e].val = v
    /\ Others(cache', e) = Elements(cache)
    /\ \A o \in Handles : cache'.Value[o] = cache.Value[o]

\* C40: PushFront makes the new element the first, PushBack the last,
\* InsertAfter puts it right after the element given and InsertBefore right
\* before it; each makes Len() one more, returns the new element holding
\* the value, and leaves the elements that were in the list in their
\* order. (ret holds the element returned and the value given.)
C40_Inserts ==
    [][LET e == ret'.key
           v == ret'.val
       IN
       /\ ret'.op = "PushFront" /\ ListPushFront(v) =>
             /\ Added(e, v, <<e>> \o Elements(cache))
             /\ Front(cache') = e
       /\ ret'.op = "PushBack" /\ ListPushBack(v) =>
             /\ Added(e, v, Elements(cache) \o <<e>>)
             /\ Back(cache') = e
       /\ ret'.op = "InsertAfter" =>
          \A at \in Nodes : ListInsertAfter(v, at) =>
             /\ Added(e, v, PutAfter(Elements(cache), e, at))
             /\ cache'.prev[e] = at
       /\ ret'.op = "InsertBefore" =>
          \A at \in Nodes : ListInsertBefore(v, at) =>
             /\ Added(e, v, PutAfter(Elements(cache), e, cache.prev[at]))
             /\ cache'.next[e] = at]_vars

\* InsertBefore has returned element 4, which stands in the middle of the
\* list, right before element 1.
C40_Witness ==
    /\ ret.op = "InsertBefore" /\ ret.key = 4
    /\ Elements(cache) = <<2, 4, 1, 3>>

====
